---- MODULE Spec2Model ----
(***************************************************************************)
(* A model of the twentyonelang execution core: the quote- and             *)
(* paren-aware tokenizer, the coercion of tokens into typed values, the    *)
(* command registry and runner, the environment and the simulated heap     *)
(* of CEnvironment.                                                        *)
(*                                                                         *)
(* A Python str is modelled as a sequence of one-character strings, so     *)
(* that slicing, stripping, parsing and rendering are computed as the      *)
(* code computes them.  A Python value is a record tagged by "kind".       *)
(***************************************************************************)
EXTENDS Integers, Sequences, FiniteSets, TLC

VARIABLES
    \* split_by_not_in_blocks_or_strings: its arguments, its loop position
    \* and its locals
    text, sep, pos, result, buf, depth, in_quote, escape,
    \* BaseRunner.to_type: the token it is applied to and what the call gave
    tok, typed,
    \* BaseRunner.COMMANDS and the BaseEnvironment fields
    COMMANDS, env_vars, last, chat,
    \* CEnvironment: heap and _first_free
    heap, first_free,
    \* Server.sandboxes: the environment of every user that has one
    sandboxes,
    \* the last call made on the runner or the environment, its arguments
    \* and how it ended (a returned value or a raised exception)
    call

vars == <<text, sep, pos, result, buf, depth, in_quote, escape, tok, typed,
          COMMANDS, env_vars, last, chat, heap, first_free, sandboxes,
          call>>

tokVars == <<text, sep, pos, result, buf, depth, in_quote, escape>>
coerceVars == <<tok, typed>>
envVars == <<COMMANDS, env_vars, last, chat>>
heapVars == <<heap, first_free>>

-----------------------------------------------------------------------------
(* Bounds of the model. *)

\* longest text handed to the tokenizer
MaxTextLen == 4

\* longest token, beside the named ones, handed to to_type
MaxTokLen == 3

\* the number of heap cells (range(255) in CEnvironment.__init__, scaled
\* down: cell 0 is the null cell and cells 1..HEAP_SIZE-1 are the
\* allocatable ones)
HEAP_SIZE == 3

\* largest amount of slots asked of alloc
MaxAmount == 2

\* longest string a command line quotes
MaxStrLen == 2

\* longest transcript: no call that appends to chat is made beyond it
MaxChat == 2

\* largest magnitude of the numbers rendered and coerced back
MaxValue == 16

-----------------------------------------------------------------------------
(* Python values and strings. *)

\* Python's None
PyNone == [kind |-> "None"]

\* a Python str
PyStr(s) == [kind |-> "str", v |-> s]

\* a raised exception of class exc
Raise(exc) == [kind |-> "raise", exc |-> exc]

\* the characters str.strip() removes
WHITESPACE == {" ", "\n", "\t"}

RECURSIVE lstrip(_)
lstrip(s) ==
    IF s # <<>> /\ Head(s) \in WHITESPACE THEN lstrip(Tail(s)) ELSE s

RECURSIVE rstrip(_)
rstrip(s) ==
    IF s # <<>> /\ s[Len(s)] \in WHITESPACE
    THEN rstrip(SubSeq(s, 1, Len(s) - 1))
    ELSE s

\* str.strip()
strip(s) == rstrip(lstrip(s))

\* all strings over chars of length at most n
RECURSIVE StringsUpTo(_, _)
StringsUpTo(chars, n) ==
    IF n = 0 THEN {<<>>}
    ELSE LET shorter == StringsUpTo(chars, n - 1)
         IN  shorter \cup {Append(s, c) : s \in shorter, c \in chars}

-----------------------------------------------------------------------------
(* split_by_not_in_blocks_or_strings, one loop iteration at a time. *)

\* in_quote = None
NoQuote == "None"

\* the locals of the scan before the loop
ScanInit == [result |-> <<>>, buf |-> <<>>, depth |-> 0,
             in_quote |-> NoQuote, escape |-> FALSE]

\* the body of `for c in text`, on the locals st
ScanChar(st, c, sp) ==
    IF st.escape
    THEN [st EXCEPT !.buf = Append(@, c), !.escape = FALSE]
    ELSE IF c = "\\"
    THEN [st EXCEPT !.buf = Append(@, c), !.escape = TRUE]
    ELSE IF st.in_quote # NoQuote
    THEN [st EXCEPT !.buf = Append(@, c),
                    !.in_quote = IF c = st.in_quote THEN NoQuote ELSE @]
    ELSE IF c \in {"'", "\""}
    THEN [st EXCEPT !.buf = Append(@, c), !.in_quote = c]
    ELSE IF c = "("
    THEN [st EXCEPT !.depth = @ + 1, !.buf = Append(@, c)]
    ELSE IF c = ")"
    THEN [st EXCEPT !.depth = @ - 1, !.buf = Append(@, c)]
    ELSE IF c = sp /\ st.depth = 0
    THEN [st EXCEPT !.result = Append(@, strip(st.buf)), !.buf = <<>>]
    ELSE [st EXCEPT !.buf = Append(@, c)]

\* the code after the loop: the trailing buffer is emitted when not empty
ScanEnd(st) ==
    IF st.buf # <<>> THEN Append(st.result, strip(st.buf)) ELSE st.result

RECURSIVE ScanFrom(_, _, _)
ScanFrom(st, s, sp) ==
    IF s = <<>> THEN st ELSE ScanFrom(ScanChar(st, Head(s), sp), Tail(s), sp)

\* the whole function, as from_string and handle_client_message call it
split_by_not_in_blocks_or_strings(s, sp) == ScanEnd(ScanFrom(ScanInit, s, sp))

\* the characters of the texts the tokenizer is checked on
TokChars == {"a", " ", "\n", "(", ")", "\"", "'", "\\"}

\* the separators it is called with (runners.py:227 and web.py:146)
TokSeps == {" ", "\n"}

\* the locals of the running scan, as one record
ScanState == [result |-> result, buf |-> buf, depth |-> depth,
              in_quote |-> in_quote, escape |-> escape]

\* a text with a closing parenthesis in excess, then two separators
ExcessParenText == <<"a", ")", " ", "b", " ", "c">>

TokInit ==
    /\ text \in StringsUpTo(TokChars, MaxTextLen) \cup {ExcessParenText}
    /\ sep \in TokSeps
    /\ pos = 0
    /\ result = ScanInit.result
    /\ buf = ScanInit.buf
    /\ depth = ScanInit.depth
    /\ in_quote = ScanInit.in_quote
    /\ escape = ScanInit.escape

\* one iteration of the loop, on the next character
ScanStep ==
    /\ pos < Len(text)
    /\ LET st == ScanChar(ScanState, text[pos + 1], sep)
       IN  /\ result' = st.result
           /\ buf' = st.buf
           /\ depth' = st.depth
           /\ in_quote' = st.in_quote
           /\ escape' = st.escape
    /\ pos' = pos + 1
    /\ UNCHANGED <<text, sep>>

\* the end of the loop and the return: pos = Len(text) + 1 marks "returned"
ScanReturn ==
    /\ pos = Len(text)
    /\ result' = ScanEnd(ScanState)
    /\ pos' = pos + 1
    /\ UNCHANGED <<text, sep, buf, depth, in_quote, escape>>

Returned == pos = Len(text) + 1

-----------------------------------------------------------------------------
(* Numbers and their literals. *)

DIGITS == <<"0", "1", "2", "3", "4", "5", "6", "7", "8", "9">>
HEXDIGITS == DIGITS \o <<"a", "b", "c", "d", "e", "f">>

IsDigit(c) == \E i \in 1..Len(DIGITS) : DIGITS[i] = c
IsHexDigit(c) == \E i \in 1..Len(HEXDIGITS) : HEXDIGITS[i] = c

\* the value of one hexadecimal (or decimal) digit
DigitValue(c) == (CHOOSE i \in 1..Len(HEXDIGITS) : HEXDIGITS[i] = c) - 1

AllDigits(s) == \A i \in 1..Len(s) : IsDigit(s[i])
AllHexDigits(s) == \A i \in 1..Len(s) : IsHexDigit(s[i])

\* the number a string of digits denotes in the given base
RECURSIVE BaseValue(_, _)
BaseValue(s, base) ==
    IF s = <<>> THEN 0
    ELSE BaseValue(SubSeq(s, 1, Len(s) - 1), base) * base + DigitValue(s[Len(s)])

\* the digits of n >= 0 in the given base, as hex() and str() write them
RECURSIVE BaseDigits(_, _)
BaseDigits(n, base) ==
    IF n < base THEN <<HEXDIGITS[n + 1]>>
    ELSE Append(BaseDigits(n \div base, base), HEXDIGITS[(n % base) + 1])

\* str.isdigit()
isdigit(s) == s # <<>> /\ AllDigits(s)

\* s[i:] for 0 <= i
DropFirst(s, i) == SubSeq(s, i + 1, Len(s))

\* s[:n] for 0 <= n
Prefix(s, n) == SubSeq(s, 1, IF n < Len(s) THEN n ELSE Len(s))

\* s[1:-1]
Inner(s) == SubSeq(s, 2, Len(s) - 1)

\* a literal without its sign
Unsigned(s) == IF s # <<>> /\ Head(s) \in {"+", "-"} THEN Tail(s) ELSE s
IsNegative(s) == s # <<>> /\ Head(s) = "-"

\* the first index of c in s, or 0
IndexOf(s, c) ==
    IF \E i \in 1..Len(s) : s[i] = c
    THEN CHOOSE i \in 1..Len(s) : s[i] = c /\ \A j \in 1..(i - 1) : s[j] # c
    ELSE 0

\* float(s) accepts s: surrounding whitespace, a sign, then digits with at
\* most one point and at least one digit.  (The exponent, underscore, inf
\* and nan forms need characters that are in none of the alphabets here.)
IsFloatLiteral(s) ==
    LET u == Unsigned(strip(s))
        p == IndexOf(u, ".")
        ip == IF p = 0 THEN u ELSE SubSeq(u, 1, p - 1)
        fp == IF p = 0 THEN <<>> ELSE DropFirst(u, p)
    IN  /\ AllDigits(ip)
        /\ AllDigits(fp)
        /\ Len(ip) + Len(fp) > 0

\* a float m / 10^e (negated when neg), kept with the fewest decimals
RECURSIVE NormFloat(_, _, _)
NormFloat(neg, m, e) ==
    IF e > 0 /\ m % 10 = 0 THEN NormFloat(neg, m \div 10, e - 1)
    ELSE [kind |-> "float", neg |-> neg, m |-> m, e |-> e]

\* float(s) for a literal s
FloatOf(s) ==
    LET t == strip(s)
        u == Unsigned(t)
        p == IndexOf(u, ".")
        ip == IF p = 0 THEN u ELSE SubSeq(u, 1, p - 1)
        fp == IF p = 0 THEN <<>> ELSE DropFirst(u, p)
    IN  NormFloat(IsNegative(t), BaseValue(ip \o fp, 10), Len(fp))

\* a literal without its 0x prefix
Unprefixed(s) ==
    IF Prefix(s, 2) = <<"0", "x">> THEN DropFirst(s, 2) ELSE s

\* int(s, 16) accepts s: surrounding whitespace, a sign, an optional 0x,
\* then at least one hexadecimal digit
IsHexLiteral(s) ==
    LET d == Unprefixed(Unsigned(strip(s)))
    IN  d # <<>> /\ AllHexDigits(d)

\* int(s, 16) for a literal s
HexOf(s) ==
    LET t == strip(s)
        n == BaseValue(Unprefixed(Unsigned(t)), 16)
    IN  IF IsNegative(t) THEN 0 - n ELSE n

\* int(s, 16): the number, or the ValueError it raises
ParseInt16(s) == IF IsHexLiteral(s) THEN [kind |-> "int", v |-> HexOf(s)]
                 ELSE Raise("ValueError")

\* an int as a caller writes it in hexadecimal
HexArg(a) ==
    IF a >= 0 THEN BaseDigits(a, 16) ELSE <<"-">> \o BaseDigits(0 - a, 16)

\* str(hex(addr))[2:]: hex() writes a negative number as -0x..., so the
\* slice drops "0x" of a natural number and "-0" of a negative one
HexTail(addr) ==
    IF addr >= 0 THEN BaseDigits(addr, 16)
    ELSE <<"x">> \o BaseDigits(0 - addr, 16)

\* the addresses free, heapget and heapset are called with: every cell, the
\* first address past the end, a negative address, and the text alloc
\* returns for a negative cursor
AddrArgs == {HexArg(a) : a \in (0 - 1)..HEAP_SIZE} \cup {HexTail(0 - 1)}

\* the offsets heapget and heapset are called with
OffArgs == {HexArg(o) : o \in (0 - 1)..MaxAmount}

\* ParseInt16 on the arguments above, computed once
Int16Table == [s \in AddrArgs \cup OffArgs |-> ParseInt16(s)] @@ <<>>

int16(s) == IF s \in DOMAIN Int16Table THEN Int16Table[s] ELSE ParseInt16(s)

PyInt(n) == [kind |-> "int", v |-> n]
HexValue(n) == [kind |-> "HexValue", v |-> n]
BlockType(s) == [kind |-> "BlockType", v |-> s]
Variable(s) == [kind |-> "Variable", v |-> s]

\* BlockType.converted
converted(b) == Inner(b.v)

-----------------------------------------------------------------------------
(* json.loads on the texts to_type hands it. *)

\* the prefixes of s a JSON number can end at, as what is left of s
JsonNumberRests(s) ==
    {DropFirst(s, n) : n \in {k \in 1..Len(s) :
        LET lit == SubSeq(s, 1, k)
            u == IF Head(lit) = "-" THEN Tail(lit) ELSE lit
            p == IndexOf(u, ".")
            ip == IF p = 0 THEN u ELSE SubSeq(u, 1, p - 1)
            fp == IF p = 0 THEN <<>> ELSE DropFirst(u, p)
        IN  /\ isdigit(ip)
            /\ (Len(ip) > 1 => Head(ip) # "0")
            /\ (p # 0 => isdigit(fp))}}

\* the ends of a JSON string starting s, as what is left of s (no escapes:
\* a backslash is in no alphabet a composite is drawn from)
JsonStringRests(s) ==
    IF s = <<>> \/ Head(s) # "\"" THEN {}
    ELSE LET q == IndexOf(Tail(s), "\"")
         IN  IF q = 0 \/ \E i \in 1..(q - 1) : Tail(s)[i] \in {"\n", "\t", "\\"}
             THEN {}
             ELSE {DropFirst(s, q + 1)}

\* what can be left of s after one JSON value (an array holds at most one
\* element and an object none: "," and ":" are in no alphabet used here)
RECURSIVE JsonValueRests(_)
JsonValueRests(s0) ==
    LET s == lstrip(s0)
    IN  IF s = <<>> THEN {}
        ELSE IF Head(s) = "["
        THEN LET body == lstrip(Tail(s))
                 empty == IF body # <<>> /\ Head(body) = "]"
                          THEN {Tail(body)} ELSE {}
                 one == {Tail(lstrip(r)) : r \in
                            {x \in JsonValueRests(body) :
                                lstrip(x) # <<>> /\ Head(lstrip(x)) = "]"}}
             IN  empty \cup one
        ELSE IF Head(s) = "{"
        THEN LET body == lstrip(Tail(s))
             IN  IF body # <<>> /\ Head(body) = "}" THEN {Tail(body)} ELSE {}
        ELSE JsonStringRests(s) \cup JsonNumberRests(s)

\* json.loads(s): the composite (kept as its text), or the error it raises
loads(s) ==
    IF \E r \in JsonValueRests(s) : lstrip(r) = <<>>
    THEN [kind |-> "json", v |-> strip(s)]
    ELSE Raise("JSONDecodeError")

-----------------------------------------------------------------------------
(* BaseRunner.floating, hexable and to_type. *)

\* floating(val) for a str: float(val) succeeds, or raises ValueError, which
\* the `except TypeError` clause does not catch.  "False" is returned only
\* for a TypeError, which a str never gives.
floating(val) == IF IsFloatLiteral(val) THEN "True" ELSE "ValueError"

\* hexable(val) for a str, in the same way
hexable(val) == IF IsHexLiteral(val) THEN "True" ELSE "ValueError"

\* to_type(s) for a str s: the typed value, or the exception raised
to_type(s) ==
    IF Len(s) >= 2 /\ Head(s) = "\"" /\ s[Len(s)] = "\""
    THEN PyStr(Inner(s))
    ELSE IF isdigit(s)
    THEN PyInt(BaseValue(s, 10))
    ELSE IF floating(s) = "ValueError"
    THEN Raise("ValueError")
    ELSE IF floating(s) = "True"
    THEN FloatOf(s)
    ELSE IF Len(s) >= 2 /\ Head(s) \in {"{", "["} /\ s[Len(s)] \in {"}", "]"}
    THEN loads(s)
    ELSE IF hexable(s) = "ValueError"
    THEN Raise("ValueError")
    ELSE IF hexable(s) = "True"
    THEN HexValue(HexOf(s))
    ELSE IF Prefix(s, 2) = <<"0", "x">> /\ hexable(DropFirst(s, 2)) = "True"
    THEN HexValue(HexOf(DropFirst(s, 2)))
    ELSE IF Len(s) >= 2 /\ Head(s) = "(" /\ s[Len(s)] = ")"
    THEN BlockType(s)
    ELSE Variable(s)

-----------------------------------------------------------------------------
(* CEnvironment: alloc, free, heapget and heapset.  Each operator gives    *)
(* the fields the call leaves behind and how the call ended: ret is the    *)
(* value returned or the exception raised.                                 *)

\* indexing a Python list of length n with i: the position (from 0), where
\* a negative i counts from the end, or -1 for an IndexError
ListIndex(i, n) ==
    IF 0 <= i /\ i < n THEN i
    ELSE IF 0 - n <= i /\ i < 0 THEN n + i
    ELSE 0 - 1

\* [None for _ in range(amount)]
NoneList(amount) == [i \in 1..amount |-> PyNone]

\* the `while not self.heap[self._first_free]['free']` loop from 1: where
\* it stops, or HEAP_SIZE when it runs off the end of the list
ScanFree(h) ==
    IF \E k \in 1..(HEAP_SIZE - 1) : h[k].free
    THEN CHOOSE k \in 1..(HEAP_SIZE - 1) :
             h[k].free /\ \A j \in 1..(k - 1) : ~h[j].free
    ELSE HEAP_SIZE

\* alloc(amount) without its test of the cell at the cursor
alloc_unchecked(h, ff, amount) ==
    LET c == ListIndex(ff, HEAP_SIZE)
        marked == [h EXCEPT ![c].free = FALSE]
        filled == [marked EXCEPT ![c].value =
                      [kind |-> "list", v |-> NoneList(amount.v)]]
    IN  IF c < 0
        THEN [heap |-> h, first_free |-> ff, ret |-> Raise("IndexError")]
        ELSE IF amount.kind # "int"
        THEN [heap |-> marked, first_free |-> ff, ret |-> Raise("TypeError")]
        ELSE IF ScanFree(filled) = HEAP_SIZE
        THEN [heap |-> filled, first_free |-> HEAP_SIZE,
              ret |-> Raise("IndexError")]
        ELSE [heap |-> filled, first_free |-> ScanFree(filled),
              ret |-> PyStr(HexTail(ff))]

\* alloc(amount)
alloc(h, ff, amount) ==
    LET c == ListIndex(ff, HEAP_SIZE)
        marked == [h EXCEPT ![c].free = FALSE]
        filled == [marked EXCEPT ![c].value =
                      [kind |-> "list", v |-> NoneList(amount.v)]]
    IN  IF c < 0
        THEN [heap |-> h, first_free |-> ff, ret |-> Raise("IndexError")]
        ELSE IF ~h[c].free
        THEN [heap |-> h, first_free |-> ff, ret |-> PyNone]
        ELSE IF amount.kind # "int"
        THEN [heap |-> marked, first_free |-> ff, ret |-> Raise("TypeError")]
        ELSE IF ScanFree(filled) = HEAP_SIZE
        THEN [heap |-> filled, first_free |-> HEAP_SIZE,
              ret |-> Raise("IndexError")]
        ELSE [heap |-> filled, first_free |-> ScanFree(filled),
              ret |-> PyStr(HexTail(ff))]

\* free(addr)
free(h, ff, addr) ==
    LET a == int16(addr)
        c == ListIndex(a.v, HEAP_SIZE)
    IN  IF a.kind = "raise"
        THEN [heap |-> h, first_free |-> ff, ret |-> a]
        ELSE IF c < 0
        THEN [heap |-> h, first_free |-> ff, ret |-> Raise("IndexError")]
        ELSE [heap |-> [h EXCEPT ![c] = [value |-> PyNone, free |-> TRUE]],
              first_free |-> a.v, ret |-> PyNone]

\* self.heap[int(addr, 16)]['value'][int(inneraddr, 16)]: the cell and the
\* position (from 0) the subscripts reach, or the exception raised on the way
Subscript(h, addr, inneraddr) ==
    LET a == int16(addr)
        c == ListIndex(a.v, HEAP_SIZE)
        o == int16(inneraddr)
        val == h[c].value
        i == ListIndex(o.v, Len(val.v))
    IN  IF a.kind = "raise" THEN a
        ELSE IF c < 0 THEN Raise("IndexError")
        ELSE IF o.kind = "raise" THEN o
        ELSE IF val.kind # "list" THEN Raise("TypeError")
        ELSE IF i < 0 THEN Raise("IndexError")
        ELSE [kind |-> "slot", cell |-> c, i |-> i]

\* heapget(addr, inneraddr)
heapget(h, l, addr, inneraddr) ==
    LET s == Subscript(h, addr, inneraddr)
    IN  IF s.kind = "raise" THEN [last |-> l, ret |-> s]
        ELSE [last |-> h[s.cell].value.v[s.i + 1], ret |-> PyNone]

\* heapset(addr, inneraddr, value)
heapset(h, addr, inneraddr, value) ==
    LET s == Subscript(h, addr, inneraddr)
    IN  IF s.kind = "raise" THEN [heap |-> h, ret |-> s]
        ELSE [heap |-> [h EXCEPT ![s.cell].value.v[s.i + 1] = value],
              ret |-> PyNone]

-----------------------------------------------------------------------------
(* Rendering: str(x) and BaseRunner.from_type. *)

\* the decimal digits of n, left-padded with zeros to width w
RECURSIVE ZeroPad(_, _)
ZeroPad(s, w) == IF Len(s) >= w THEN s ELSE ZeroPad(<<"0">> \o s, w)

Pow10(e) == IF e = 0 THEN 1 ELSE IF e = 1 THEN 10 ELSE 100

\* str(x) of a float m / 10^e with e <= 2 (the floats of the literals of
\* the alphabets here; repr switches to exponent notation only below 1e-4
\* and from 1e16 on)
FloatStr(x) ==
    (IF x.neg THEN <<"-">> ELSE <<>>)
        \o BaseDigits(x.m \div Pow10(x.e), 10)
        \o <<".">>
        \o (IF x.e = 0 THEN <<"0">>
            ELSE ZeroPad(BaseDigits(x.m % Pow10(x.e), 10), x.e))

\* str(n) of an int
IntStr(n) ==
    IF n >= 0 THEN BaseDigits(n, 10) ELSE <<"-">> \o BaseDigits(0 - n, 10)

\* str(x): BaseEnvType.__str__ is str(self.value)
str(x) ==
    CASE x.kind = "str" -> x.v
      [] x.kind = "int" -> IntStr(x.v)
      [] x.kind = "float" -> FloatStr(x)
      [] x.kind = "HexValue" -> IntStr(x.v)
      [] x.kind \in {"BlockType", "Variable"} -> x.v
      [] x.kind = "None" -> <<"N", "o", "n", "e">>

\* from_type(s): str(s) for a str, HexValue, float, int or BlockType; the
\* function falls off its end, returning None, for a Variable (dict and list
\* go to dumps, and are not among the values drawn here)
from_type(s) ==
    IF s.kind \in {"str", "HexValue", "float", "int", "BlockType"}
    THEN PyStr(str(s))
    ELSE PyNone

-----------------------------------------------------------------------------
(* BaseEnvironment: output, get and set, on the fields e = [vars, last,    *)
(* chat] of an environment.                                                *)

\* output(x) without its except clause: a RuntimeError of emit propagates
output_uncaught(e, x, emitted) ==
    IF emitted = "ok"
    THEN [env |-> [e EXCEPT !.chat = Append(@, str(x)), !.last = x],
          ret |-> PyNone]
    ELSE [env |-> e, ret |-> Raise(emitted)]

\* output(x) that gives up when emit raises RuntimeError
output_abandoned(e, x, emitted) ==
    IF emitted = "ok"
    THEN [env |-> [e EXCEPT !.chat = Append(@, str(x)), !.last = x],
          ret |-> PyNone]
    ELSE IF emitted = "RuntimeError" THEN [env |-> e, ret |-> PyNone]
    ELSE [env |-> e, ret |-> Raise(emitted)]

\* output(x), where emitted is how the call of flask_socketio's emit ends:
\* "ok", or the class of the exception it raises.  Only RuntimeError is
\* caught; any other exception leaves output before chat and last are set.
output(e, x, emitted) ==
    IF emitted \in {"ok", "RuntimeError"}
    THEN [env |-> [e EXCEPT !.chat = Append(@, str(x)), !.last = x],
          ret |-> PyNone]
    ELSE [env |-> e, ret |-> Raise(emitted)]

\* get(name): last is set, and nothing is returned
get(e, name) ==
    IF name \in DOMAIN e.vars
    THEN [env |-> [e EXCEPT !.last = e.vars[name]], ret |-> PyNone]
    ELSE [env |-> e, ret |-> Raise("KeyError")]

\* set(name, value) that also records the value in last
set_recording(e, name, value) ==
    [env |-> [e EXCEPT !.vars = (name :> value) @@ e.vars, !.last = value],
     ret |-> PyNone]

\* set(name, value)
set(e, name, value) ==
    [env |-> [e EXCEPT !.vars = (name :> value) @@ e.vars], ret |-> PyNone]

-----------------------------------------------------------------------------
(* Command handlers, the registry and the runner. *)

\* the handler of the dispatch example: def echo(x, env): env.output(x).
\* A call with another number of positional arguments is a TypeError.
echo(args, e, emitted) ==
    IF Len(args) # 1 THEN [env |-> e, ret |-> Raise("TypeError")]
    ELSE output(e, args[1], emitted)

\* func(*args, env=env) for a registered func
CallHandler(func, args, e, emitted) ==
    CASE func = "echo" -> echo(args, e, emitted)

\* cls.register_as_command(name)(func) on the one dict BaseRunner.COMMANDS,
\* which every subclass that defines no COMMANDS of its own shares
register_as_command(cmds, cls, name, func) ==
    IF cls = "BaseRunner"
    THEN [COMMANDS |-> cmds, ret |-> Raise("TypeError")]
    ELSE [COMMANDS |-> (name :> func) @@ cmds, ret |-> PyNone]

\* cls.from_string(s, env): the runner built, as [value, args], or the
\* exception raised by to_type on an argument or by sp[0] on no token
from_string(s) ==
    LET sp == split_by_not_in_blocks_or_strings(s, " ")
        all_args == [i \in 1..(Len(sp) - 1) |-> to_type(sp[i + 1])]
        bad == {i \in 1..(Len(sp) - 1) : all_args[i].kind = "raise"}
    IN  IF bad # {}
        THEN all_args[CHOOSE i \in bad : \A j \in bad : i <= j]
        ELSE IF sp = <<>>
        THEN Raise("IndexError")
        ELSE [kind |-> "runner", value |-> sp[1], args |-> all_args]

\* run(error) without its try: the failed lookup raises whatever error is
run_untried(cmds, e, runner, error, emitted) ==
    IF runner.value \notin DOMAIN cmds
    THEN [env |-> e, ret |-> Raise("KeyError")]
    ELSE LET h == CallHandler(cmds[runner.value], runner.args, e, emitted)
         IN  [env |-> h.env, ret |-> h.ret]

\* runner.run(error) on the registry cmds and the environment e
run(cmds, e, runner, error, emitted) ==
    IF runner.value \notin DOMAIN cmds
    THEN [env |-> e, ret |-> IF error THEN Raise("KeyError") ELSE PyNone]
    ELSE LET h == CallHandler(cmds[runner.value], runner.args, e, emitted)
         IN  [env |-> h.env,
              ret |-> IF h.ret.kind = "raise" /\ error THEN h.ret ELSE PyNone]

-----------------------------------------------------------------------------
(* The state after construction, and the state of the parts a              *)
(* specification leaves alone.                                             *)

\* BaseRunner.COMMANDS = {}
RegistryInit == COMMANDS = <<>>

\* BaseEnvironment.__init__
EnvInit ==
    /\ env_vars = <<>>
    /\ last = PyStr(<<>>)
    /\ chat = <<>>

\* CEnvironment.__init__
HeapInit ==
    /\ heap = [i \in 0..(HEAP_SIZE - 1) |-> [value |-> PyNone, free |-> TRUE]]
    /\ first_free = 1

NoCall == [op |-> "none"]

TokIdle ==
    /\ text = <<>>
    /\ sep = " "
    /\ pos = 0
    /\ result = <<>>
    /\ buf = <<>>
    /\ depth = 0
    /\ in_quote = NoQuote
    /\ escape = FALSE

Pending == [kind |-> "pending"]

CoerceIdle == tok = <<>> /\ typed = Pending

\* Server.__init__: no user has a sandbox
WebIdle == sandboxes = <<>>

-----------------------------------------------------------------------------
(* The tokenizer on every text of the bounded alphabet. *)

SpecTokInit ==
    /\ TokInit
    /\ CoerceIdle
    /\ RegistryInit /\ EnvInit /\ HeapInit /\ WebIdle
    /\ call = NoCall

SpecTokNext ==
    \/ ScanStep /\ UNCHANGED <<coerceVars, envVars, heapVars, sandboxes, call>>
    \/ ScanReturn /\ UNCHANGED <<coerceVars, envVars, heapVars, sandboxes, call>>

SpecTok == SpecTokInit /\ [][SpecTokNext]_vars

\* the pieces of s between every two occurrences of sp
RECURSIVE Pieces(_, _)
Pieces(s, sp) ==
    LET i == IndexOf(s, sp)
    IN  IF i = 0 THEN <<s>>
        ELSE <<SubSeq(s, 1, i - 1)>> \o Pieces(DropFirst(s, i), sp)

\* s split on runs of sp: the trimmed pieces that are not empty
SplitOnRuns(s, sp) ==
    LET ps == Pieces(s, sp)
        Keep(piece) == strip(piece) # <<>>
    IN  [i \in 1..Len(SelectSeq(ps, Keep)) |-> strip(SelectSeq(ps, Keep)[i])]

\* text holds no quote, parenthesis or backslash
PlainText == \A i \in 1..Len(text) : text[i] \notin {"\"", "'", "(", ")", "\\"}

\* C6: for a text with no quote, parenthesis or backslash, splitting on " "
\* gives the tokens of ordinary whitespace splitting: runs of separators
\* and leading or trailing separators produce no empty token.
C6_PlainTextSplitsOnRuns ==
    (Returned /\ sep = " " /\ PlainText) => result = SplitOnRuns(text, sep)

\* the parenthesis depth after the characters of s, outside quotes and
\* escapes, counted with a floor of zero: st is <<depth, quote, escape>>
RECURSIVE NestingFrom(_, _)
NestingFrom(st, s) ==
    IF s = <<>> THEN st
    ELSE LET c == Head(s)
             next ==
                 IF st[3] THEN <<st[1], st[2], FALSE>>
                 ELSE IF c = "\\" THEN <<st[1], st[2], TRUE>>
                 ELSE IF st[2] # NoQuote
                 THEN <<st[1], IF c = st[2] THEN NoQuote ELSE st[2], FALSE>>
                 ELSE IF c \in {"'", "\""} THEN <<st[1], c, FALSE>>
                 ELSE IF c = "(" THEN <<st[1] + 1, st[2], FALSE>>
                 ELSE IF c = ")"
                 THEN <<IF st[1] > 0 THEN st[1] - 1 ELSE 0, st[2], FALSE>>
                 ELSE st
         IN  NestingFrom(next, Tail(s))

Nesting(s) == NestingFrom(<<0, NoQuote, FALSE>>, s)

\* this step of the scan ends a token
EndsToken == pos' = pos + 1 /\ Len(result') = Len(result) + 1 /\ pos < Len(text)

\* the character at position p of text lies inside a balanced
\* parenthesized group: the depth before it is above zero and the group
\* that is open there is closed later in the text
InsideGroup(p) ==
    LET d == Nesting(SubSeq(text, 1, p - 1))[1]
    IN  /\ d > 0
        /\ \E j \in (p + 1)..Len(text) : Nesting(SubSeq(text, 1, j))[1] < d

\* C7: a separator met while a quote is open, or inside a parenthesized
\* group outside quotes, never ends a token: a quoted string or a balanced
\* parenthesized group is always emitted inside a single token.
C7_NoSplitInsideQuoteOrGroup ==
    [][EndsToken =>
          /\ Nesting(SubSeq(text, 1, pos))[2] = NoQuote
          /\ ~InsideGroup(pos + 1)]_vars

-----------------------------------------------------------------------------
(* to_type on every token of the bounded alphabet and on the named ones. *)

Tok42 == <<"4", "2">>
Tok42_5 == <<"4", "2", ".", "5">>
TokHi == <<"\"", "h", "i", "\"">>
Tok0xff == <<"0", "x", "f", "f">>
TokBlock == <<"(", "f", "o", "o", " ", "b", "a", "r", ")">>
TokXyz == <<"x", "y", "z">>

CoerceChars == {"4", "0", ".", "-", "x", "f", "\"", "(", ")", "[", "]", " "}

CoerceTokens ==
    {Tok42, Tok42_5, TokHi, Tok0xff, TokBlock, TokXyz}
        \cup StringsUpTo(CoerceChars, MaxTokLen)

\* a call of to_type on tok
Coerce ==
    /\ typed = Pending
    /\ typed' = to_type(tok)
    /\ UNCHANGED tok

SpecCoerceInit ==
    /\ tok \in CoerceTokens
    /\ typed = Pending
    /\ TokIdle
    /\ RegistryInit /\ EnvInit /\ HeapInit /\ WebIdle
    /\ call = NoCall

SpecCoerceNext == Coerce /\ UNCHANGED <<tokVars, envVars, heapVars, sandboxes, call>>

SpecCoerce == SpecCoerceInit /\ [][SpecCoerceNext]_vars

\* C1: to_type classifies the named tokens by the decision order: "42" is
\* the integer 42, "42.5" the float 42.5, "\"hi\"" the string hi, "0xff" a
\* HexValue of 255, "(foo bar)" a BlockType whose converted content is
\* "foo bar", and "xyz" a Variable carrying the raw token text.
C1_ToTypeClassifies ==
    typed # Pending =>
        /\ tok = Tok42 => typed = PyInt(42)
        /\ tok = Tok42_5 => typed = NormFloat(FALSE, 425, 1)
        /\ tok = TokHi => typed = PyStr(<<"h", "i">>)
        /\ tok = Tok0xff => typed = HexValue(255)
        /\ tok = TokBlock =>
              /\ typed.kind = "BlockType"
              /\ converted(typed) = <<"f", "o", "o", " ", "b", "a", "r">>
        /\ tok = TokXyz => typed = Variable(TokXyz)

\* a token wrapped in {...} or [...] whose content is no composite
MalformedComposite(s) ==
    /\ Len(s) >= 2
    /\ Head(s) \in {"{", "["}
    /\ s[Len(s)] \in {"}", "]"}
    /\ loads(s).kind = "raise"

\* C2: coercion is total: to_type returns a typed value for every token and
\* raises only for a token wrapped in {...} or [...] whose content is
\* malformed composite syntax.
C2_CoercionTotal ==
    typed # Pending => (typed.kind = "raise" => MalformedComposite(tok))

-----------------------------------------------------------------------------
(* The heap of a CEnvironment under calls of alloc, free, heapget and      *)
(* heapset with arguments of every shape.                                  *)

\* the amounts alloc is called with: ints, and a float (range() refuses it)
IntAmounts == {PyInt(n) : n \in 0..MaxAmount}
AllocAmounts == IntAmounts \cup {NormFloat(FALSE, 2, 0)}

\* the values heapset writes
HeapValues == {PyInt(7)}

AllocCall(amount) ==
    LET r == alloc(heap, first_free, amount)
    IN  /\ heap' = r.heap
        /\ first_free' = r.first_free
        /\ call' = [op |-> "alloc", args |-> <<amount>>, ret |-> r.ret]
        /\ UNCHANGED last

\* the call record of free also says whether the cell addressed was
\* occupied when free was called
FreeCall(addr) ==
    LET r == free(heap, first_free, addr)
        a == int16(addr)
    IN  /\ heap' = r.heap
        /\ first_free' = r.first_free
        /\ call' = [op |-> "free", args |-> <<addr>>, ret |-> r.ret,
                    occupied |-> /\ r.ret = PyNone
                                 /\ ~heap[ListIndex(a.v, HEAP_SIZE)].free]
        /\ UNCHANGED last

HeapgetCall(addr, inneraddr) ==
    LET r == heapget(heap, last, addr, inneraddr)
    IN  /\ last' = r.last
        /\ call' = [op |-> "heapget", args |-> <<addr, inneraddr>>,
                    ret |-> r.ret]
        /\ UNCHANGED <<heap, first_free>>

HeapsetCall(addr, inneraddr, value) ==
    LET r == heapset(heap, addr, inneraddr, value)
    IN  /\ heap' = r.heap
        /\ call' = [op |-> "heapset", args |-> <<addr, inneraddr, value>>,
                    ret |-> r.ret]
        /\ UNCHANGED <<first_free, last>>

SpecHeapInit ==
    /\ HeapInit
    /\ EnvInit /\ RegistryInit /\ WebIdle
    /\ TokIdle /\ CoerceIdle
    /\ call = NoCall

\* the variables no heap call touches
heapOther == <<tokVars, coerceVars, COMMANDS, env_vars, chat, sandboxes>>

SpecHeapNext ==
    \/ \E amount \in IntAmounts : AllocCall(amount) /\ UNCHANGED heapOther
    \/ \E addr \in AddrArgs : FreeCall(addr) /\ UNCHANGED heapOther
    \/ \E addr \in AddrArgs, inneraddr \in OffArgs :
           HeapgetCall(addr, inneraddr) /\ UNCHANGED heapOther
    \/ \E addr \in AddrArgs, inneraddr \in OffArgs, value \in HeapValues :
           HeapsetCall(addr, inneraddr, value) /\ UNCHANGED heapOther

SpecHeap == SpecHeapInit /\ [][SpecHeapNext]_vars

\* the allocator alone: alloc and free calls
SpecAllocFreeNext ==
    \/ \E amount \in AllocAmounts : AllocCall(amount) /\ UNCHANGED heapOther
    \/ \E addr \in AddrArgs : FreeCall(addr) /\ UNCHANGED heapOther

SpecAllocFree == SpecHeapInit /\ [][SpecAllocFreeNext]_vars

\* a fresh CEnvironment on which free is never called
SpecAllocNext ==
    \/ \E amount \in IntAmounts : AllocCall(amount) /\ UNCHANGED heapOther
    \/ \E addr \in AddrArgs, inneraddr \in OffArgs :
           HeapgetCall(addr, inneraddr) /\ UNCHANGED heapOther
    \/ \E addr \in AddrArgs, inneraddr \in OffArgs, value \in HeapValues :
           HeapsetCall(addr, inneraddr, value) /\ UNCHANGED heapOther

SpecAlloc == SpecHeapInit /\ [][SpecAllocNext]_vars

-----------------------------------------------------------------------------
(* The claims about the heap. *)

\* every allocatable cell is occupied
HeapFull(h) == \A k \in 1..(HEAP_SIZE - 1) : ~h[k].free

\* C3: heap exhaustion is a sentinel, not an exception: on a fresh
\* CEnvironment on which free is never called, an alloc call made while an
\* allocatable cell is free returns the address of a cell among
\* 1..HEAP_SIZE-1 that was free (so the addresses returned are distinct),
\* an alloc call made when none is free returns None, and no alloc raises.
C3_ExhaustionIsSentinel ==
    [][call'.op = "alloc" =>
          /\ call'.ret.kind # "raise"
          /\ IF HeapFull(heap)
             THEN call'.ret = PyNone
             ELSE /\ call'.ret.kind = "str"
                  /\ \E k \in 1..(HEAP_SIZE - 1) :
                        /\ heap[k].free
                        /\ ~heap'[k].free
                        /\ call'.ret.v = HexTail(k)]_vars

\* C8: immediate reuse of a freed cell: when free(a) has just been called
\* on an occupied address a >= 1, the alloc call that follows it returns
\* the same address a.
C8_FreedCellIsReused ==
    [][(/\ call.op = "free"
        /\ call.occupied
        /\ int16(call.args[1]).v >= 1
        /\ call'.op = "alloc"
        /\ call'.args[1].kind = "int")
          => call'.ret = PyStr(HexTail(int16(call.args[1]).v))]_vars

\* C9: heap write/read round trip: for the address a that alloc(n) has just
\* returned and an offset o with 0 <= o < n, heapset(a, o, v) succeeds,
\* writes v at offset o of that cell and changes no other offset and no
\* other cell; and heapget(a, o) right after a successful heapset(a, o, v)
\* succeeds and puts v in last.
C9_HeapRoundTrip ==
    [][/\ (/\ call.op = "alloc"
           /\ call.ret.kind = "str"
           /\ call'.op = "heapset"
           /\ call'.args[1] = call.ret.v
           /\ int16(call'.args[2]).v \in 0..(call.args[1].v - 1))
             => /\ call'.ret = PyNone
                /\ int16(call.ret.v).kind = "int"
                /\ heap' = [heap EXCEPT
                              ![int16(call.ret.v).v].value.v[
                                  int16(call'.args[2]).v + 1] = call'.args[3]]
                /\ last' = last
       /\ (/\ call.op = "heapset"
           /\ call.ret = PyNone
           /\ int16(call.args[2]).v >= 0
           /\ call'.op = "heapget"
           /\ call'.args = <<call.args[1], call.args[2]>>)
             => /\ call'.ret = PyNone
                /\ last' = call.args[3]
                /\ heap' = heap]_vars

\* heapget or heapset is called on (addr, inneraddr), two numbers, where the
\* address is out of the cell range, or its cell is not occupied, or the
\* offset is outside 0..n-1 for the n slots of the cell
InvalidAccess(h, addr, inneraddr) ==
    LET a == int16(addr)
        o == int16(inneraddr)
    IN  /\ a.kind = "int"
        /\ o.kind = "int"
        /\ \/ a.v < 0
           \/ a.v >= HEAP_SIZE
           \/ h[a.v].free
           \/ h[a.v].value.kind # "list"
           \/ o.v < 0
           \/ o.v >= Len(h[a.v].value.v)

\* C10: invalid heap access is an error: heapget or heapset raises, and
\* leaves the heap and last unchanged, whenever the address is out of the
\* cell range, the addressed cell is not occupied, or the offset is outside
\* 0..n-1, negative addresses and negative offsets included.
C10_InvalidAccessRaises ==
    [][(/\ call'.op \in {"heapget", "heapset"}
        /\ InvalidAccess(heap, call'.args[1], call'.args[2]))
          => /\ call'.ret.kind = "raise"
             /\ heap' = heap
             /\ last' = last]_vars

-----------------------------------------------------------------------------
(* The registry and one environment under registrations, command lines     *)
(* and direct calls of output, get and set.                                *)

CmdEcho == <<"e", "c", "h", "o">>
CmdNope == <<"n", "o", "p", "e">>
CmdNames == {CmdEcho, CmdNope}

\* the runner classes: the abstract base and two concrete families
RunnerClasses == {"BaseRunner", "RunnerA", "RunnerB"}
Families == RunnerClasses \ {"BaseRunner"}

\* the names handlers are registered under; CmdNope never is
RegNames == {CmdEcho}

Handlers == {"echo"}

\* the characters of the strings a command line quotes
StrChars == {"a", " ", "\"", "\\"}
QuotedStrings == StringsUpTo(StrChars, MaxStrLen)

\* s between double quotes
Quoted(s) == <<"\"">> \o s \o <<"\"">>

\* the command lines: the empty line, a name alone, echo followed by one
\* double-quoted string, and a name never registered followed by one
Lines ==
    {<<>>} \cup CmdNames
        \cup {CmdEcho \o <<" ">> \o Quoted(s) : s \in QuotedStrings}
        \cup {CmdNope \o <<" ">> \o Quoted(<<"a">>)}

\* from_string on every command line, computed once
FromStringTable == [line \in Lines |-> from_string(line)] @@ <<>>

\* how a call of emit ends: it returns, or it raises RuntimeError (as it
\* does outside a request), or it raises another exception
EmitOutcomes == {"ok", "RuntimeError", "Exception"}

VarNames == {<<"x">>}
EnvValues == {PyInt(7)}

Env == [vars |-> env_vars, last |-> last, chat |-> chat]

SetEnv(e) ==
    /\ env_vars' = e.vars
    /\ last' = e.last
    /\ chat' = e.chat

RegisterCall(cls, name, func) ==
    LET r == register_as_command(COMMANDS, cls, name, func)
    IN  /\ COMMANDS' = r.COMMANDS
        /\ call' = [op |-> "register", args |-> <<cls, name, func>>,
                    ret |-> r.ret]
        /\ UNCHANGED <<env_vars, last, chat>>

\* cls.from_string(line, env).run(error)
RunLine(cls, line, error, emitted) ==
    LET runner == FromStringTable[line]
        r == IF runner.kind = "raise" THEN [env |-> Env, ret |-> runner]
             ELSE run(COMMANDS, Env, runner, error, emitted)
    IN  /\ Len(chat) < MaxChat
        /\ SetEnv(r.env)
        /\ call' = [op |-> "run", args |-> <<cls, line, error, emitted>>,
                    ret |-> r.ret]
        /\ UNCHANGED COMMANDS

OutputCall(x, emitted) ==
    LET r == output(Env, x, emitted)
    IN  /\ Len(chat) < MaxChat
        /\ SetEnv(r.env)
        /\ call' = [op |-> "output", args |-> <<x, emitted>>, ret |-> r.ret]
        /\ UNCHANGED COMMANDS

GetCall(name) ==
    LET r == get(Env, name)
    IN  /\ SetEnv(r.env)
        /\ call' = [op |-> "get", args |-> <<name>>, ret |-> r.ret]
        /\ UNCHANGED COMMANDS

SetCall(name, value) ==
    LET r == set(Env, name, value)
    IN  /\ SetEnv(r.env)
        /\ call' = [op |-> "set", args |-> <<name, value>>, ret |-> r.ret]
        /\ UNCHANGED COMMANDS

SpecRunInit ==
    /\ RegistryInit /\ EnvInit
    /\ HeapInit /\ WebIdle
    /\ TokIdle /\ CoerceIdle
    /\ call = NoCall

\* the variables no runner or environment call touches
runOther == <<tokVars, coerceVars, heapVars, sandboxes>>

SpecRunNext ==
    \/ \E cls \in RunnerClasses, name \in RegNames, func \in Handlers :
           RegisterCall(cls, name, func) /\ UNCHANGED runOther
    \/ \E cls \in Families, line \in Lines, error \in BOOLEAN,
          emitted \in EmitOutcomes :
           RunLine(cls, line, error, emitted) /\ UNCHANGED runOther
    \/ \E x \in EnvValues, emitted \in EmitOutcomes :
           OutputCall(x, emitted) /\ UNCHANGED runOther
    \/ \E name \in VarNames : GetCall(name) /\ UNCHANGED runOther
    \/ \E name \in VarNames, value \in EnvValues :
           SetCall(name, value) /\ UNCHANGED runOther

SpecRun == SpecRunInit /\ [][SpecRunNext]_vars

-----------------------------------------------------------------------------
(* Dispatch of a command line. *)

\* the step is a from_string(line, env).run(error) that reaches run, on a
\* runner whose command name is not in the registry
RunsUnknown ==
    /\ call'.op = "run"
    /\ FromStringTable[call'.args[2]].kind = "runner"
    /\ FromStringTable[call'.args[2]].value \notin DOMAIN COMMANDS

\* C4: for a command name that is not in the registry, run() with
\* error=False completes without raising and leaves the environment (its
\* variables, last and chat) unchanged, while run(error=True) raises a
\* lookup error (KeyError)
C4_UnknownCommand ==
    [][RunsUnknown
          => IF call'.args[3]
             THEN call'.ret = Raise("KeyError")
             ELSE /\ call'.ret = PyNone
                  /\ UNCHANGED <<env_vars, last, chat>>]_vars

\* an unknown command was run with error=False, and swallowed, on an
\* environment that holds a variable and a transcript, beside a registry
\* that holds another command
C4_UnknownCommandRun ==
    /\ call.op = "run"
    /\ call.args[2] = CmdNope \o <<" ">> \o Quoted(<<"a">>)
    /\ call.args[3] = FALSE
    /\ call.ret = PyNone
    /\ CmdNope \notin DOMAIN COMMANDS
    /\ CmdEcho \in DOMAIN COMMANDS
    /\ env_vars # <<>>
    /\ chat # <<>>

\* the line echo "s"
EchoLine(s) == CmdEcho \o <<" ">> \o Quoted(s)

EchoLines == {EchoLine(s) : s \in QuotedStrings}

\* the s of the line echo "s"
EchoedBy(line) == SubSeq(line, Len(CmdEcho) + 3, Len(line) - 1)

\* the step is from_string(line, env).run() on a line echo "s"
RunsEcho ==
    /\ call'.op = "run"
    /\ call'.args[2] \in EchoLines
    /\ call'.args[3] = FALSE

\* a handler that calls env.output on its single argument is registered
\* under echo
EchoRegistered == CmdEcho \in DOMAIN COMMANDS /\ COMMANDS[CmdEcho] = "echo"

\* the character at i of s follows an odd run of backslashes
RECURSIVE Escaped(_, _)
Escaped(s, i) == i > 1 /\ s[i - 1] = "\\" /\ ~Escaped(s, i - 1)

NoUnescapedQuote(s) ==
    \A i \in 1..Len(s) : s[i] = "\"" => Escaped(s, i)

\* exactly one transcript entry equal to s is appended, last is s, and the
\* variable store is as it was
EchoOutputs(s) ==
    /\ chat' = Append(chat, s)
    /\ last' = PyStr(s)
    /\ env_vars' = env_vars

-----------------------------------------------------------------------------
(* Rendering a value with from_type and coercing the text with to_type. *)

RoundChars == {"a", "4", " ", "\""}

\* the values rendered: ints, floats with up to two decimals, strings,
\* HexValues, BlockTypes and Variables
RoundInts == {PyInt(n) : n \in (0 - MaxValue)..MaxValue}
RoundFloats ==
    {NormFloat(neg, m, e) : neg \in BOOLEAN, m \in 0..MaxValue, e \in 0..2}
RoundStrs ==
    {PyStr(s) : s \in StringsUpTo(RoundChars, 2) \cup {<<"h", "i">>}}
RoundHexValues == {HexValue(n) : n \in 0..MaxValue \cup {255}}
RoundBlocks ==
    {BlockType(<<"(">> \o s \o <<")">>) : s \in StringsUpTo(RoundChars, 2)}
        \cup {BlockType(TokBlock)}

RoundValues ==
    RoundInts \cup RoundFloats \cup RoundStrs \cup RoundHexValues
        \cup RoundBlocks \cup {Variable(TokXyz)}

\* a call from_type(v)
FromTypeCall(v) ==
    LET r == from_type(v)
    IN  /\ call' = [op |-> "from_type", args |-> <<v>>, ret |-> r]
        /\ tok' = IF r.kind = "str" THEN r.v ELSE <<>>
        /\ typed' = Pending

\* the call to_type(x) on what from_type returned: a value that is not a
\* str is returned as it is
ToTypeCall ==
    /\ call.op = "from_type"
    /\ typed = Pending
    /\ typed' = IF call.ret.kind = "str" THEN to_type(tok) ELSE call.ret
    /\ UNCHANGED <<tok, call>>

SpecRoundInit ==
    /\ tok = <<>>
    /\ typed = Pending
    /\ TokIdle
    /\ RegistryInit /\ EnvInit /\ HeapInit /\ WebIdle
    /\ call = NoCall

SpecRoundNext ==
    \/ \E v \in RoundValues :
           FromTypeCall(v) /\ UNCHANGED <<tokVars, envVars, heapVars, sandboxes>>
    \/ ToTypeCall /\ UNCHANGED <<tokVars, envVars, heapVars, sandboxes>>

SpecRound == SpecRoundInit /\ [][SpecRoundNext]_vars

\* the kinds Integer, Float, String, HexValue and Block
RoundTripKinds == {"int", "float", "str", "HexValue", "BlockType"}

\* C11: for every value v of kind Integer, Float, String, HexValue or
\* Block, rendering v with from_type (str) and coercing that text with
\* to_type gives back v, with the same kind (so that rendering again gives
\* the same text)
C11_CoercionRoundTrip ==
    (/\ call.op = "from_type"
     /\ typed # Pending
     /\ call.args[1].kind \in RoundTripKinds)
        => typed = call.args[1]

-----------------------------------------------------------------------------
(* One environment under direct calls of set, get and output. *)

StoreNames == {<<"x">>, <<"y">>}
StoreValues == {PyInt(7), PyStr(<<"a">>)}

SpecEnvInit == SpecRunInit

SpecEnvNext ==
    \/ \E name \in StoreNames, value \in StoreValues :
           SetCall(name, value) /\ UNCHANGED runOther
    \/ \E name \in StoreNames : GetCall(name) /\ UNCHANGED runOther
    \/ \E x \in StoreValues, emitted \in EmitOutcomes :
           OutputCall(x, emitted) /\ UNCHANGED runOther

SpecEnv == SpecEnvInit /\ [][SpecEnvNext]_vars

\* C12: get(name) on a bound name returns the bound value to the caller
\* and sets last to it; on an absent name it fails with an error and leaves
\* last, the variable store and the transcript unchanged
C12_GetReturnsBound ==
    [][call'.op = "get"
          => IF call'.args[1] \in DOMAIN env_vars
             THEN /\ call'.ret = env_vars[call'.args[1]]
                  /\ last' = env_vars[call'.args[1]]
             ELSE /\ call'.ret.kind = "raise"
                  /\ UNCHANGED <<env_vars, last, chat>>]_vars

-----------------------------------------------------------------------------
(* The reserved cell, frees of free cells, and the cells alloc takes. *)

\* C13: cell 0 is reserved: in every state reached by alloc, free, heapget
\* and heapset calls, cell 0 is free, the allocation cursor is at least 1,
\* and no alloc call has returned the address 0
C13_CellZeroReserved ==
    /\ heap[0].free
    /\ first_free >= 1
    /\ (call.op = "alloc" => call.ret # PyStr(<<"0">>))

-----------------------------------------------------------------------------
(* Two runner families, of which only one registers handlers. *)

\* the classes register_as_command is called on here: RunnerB registers
\* nothing
RegisteringClasses == {"BaseRunner", "RunnerA"}

SpecFamilyNext ==
    \/ \E cls \in RegisteringClasses, name \in RegNames, func \in Handlers :
           RegisterCall(cls, name, func) /\ UNCHANGED runOther
    \/ \E cls \in Families, line \in Lines, error \in BOOLEAN,
          emitted \in EmitOutcomes :
           RunLine(cls, line, error, emitted) /\ UNCHANGED runOther

SpecFamily == SpecRunInit /\ [][SpecFamilyNext]_vars

\* C14: the command registry is per runner family: a handler registered
\* with register_as_command on one concrete runner subclass is not found by
\* run() on an instance of a different subclass.  Where only RunnerA
\* registers handlers, every run() on a RunnerB ends as for an unknown
\* command: KeyError when error is True, nothing raised and the environment
\* unchanged when it is False.
C14_RegistryPerFamily ==
    [][(/\ call'.op = "run"
        /\ call'.args[1] = "RunnerB"
        /\ FromStringTable[call'.args[2]].kind = "runner")
           => /\ UNCHANGED <<env_vars, last, chat>>
              /\ call'.ret = IF call'.args[3] THEN Raise("KeyError") ELSE PyNone]_vars

-----------------------------------------------------------------------------
(* The depth of the scan. *)

\* C15: during a scan the parenthesis depth never goes below zero: a
\* closing parenthesis at depth zero is absorbed, so the separators after an
\* excess ")" outside quotes still split: "a) b c" gives a), b and c
C15_DepthFloor ==
    /\ depth >= 0
    /\ (Returned /\ text = ExcessParenText /\ sep = " ")
           => result = <<<<"a", ")">>, <<"b">>, <<"c">>>>

-----------------------------------------------------------------------------
(* output under every outcome of emit, and the last register. *)

\* the step is a call output(x) that appends str(x) to the transcript, sets
\* last to x and returns
OutputCompletes ==
    /\ chat' = Append(chat, str(call'.args[1]))
    /\ last' = call'.args[1]
    /\ call'.ret = PyNone

\* C16 as stated: output(x) always completes: whether emit succeeds or
\* fails with any kind of error, output appends the rendered value to the
\* transcript, sets last to x and does not raise
C16_OutputAlwaysCompletes ==
    [][call'.op = "output" => OutputCompletes]_vars

\* C16, restated: output(x) completes in this way whenever emit succeeds or
\* fails with a RuntimeError
C16_OutputCompletes ==
    [][(call'.op = "output" /\ call'.args[2] \in {"ok", "RuntimeError"})
          => OutputCompletes]_vars

\* output("a") was called on a transcript of one entry while emit raised
\* RuntimeError: it returned, "a" is the second entry and is last
C16_OutputRun ==
    /\ call.op = "output"
    /\ call.args = <<PyStr(<<"a">>), "RuntimeError">>
    /\ call.ret = PyNone
    /\ Len(chat) = 2
    /\ chat[2] = <<"a">>
    /\ chat[1] = <<"7">>
    /\ last = PyStr(<<"a">>)

\* the step is a call of set, get or output that failed, and last is as it
\* was; or a get or an output that succeeded, and last is the value got or
\* output
LastAfterGetOutput ==
    /\ call'.ret.kind = "raise" => last' = last
    /\ (call'.op = "get" /\ call'.ret.kind # "raise")
           => last' = env_vars[call'.args[1]]
    /\ (call'.op = "output" /\ call'.ret.kind # "raise")
           => last' = call'.args[1]

\* C17 as stated: after any sequence of set, get and output calls, last
\* holds the value of the most recent successful set, get or output; right
\* after set(name, v) last equals v
C17_LastIsMostRecent ==
    [][/\ LastAfterGetOutput
       /\ call'.op = "set" => last' = call'.args[2]]_vars

\* C17, restated: last holds the value of the most recent successful get or
\* output; set leaves last as it was
C17_LastIsMostRecentGetOutput ==
    [][/\ LastAfterGetOutput
       /\ call'.op = "set" => last' = last]_vars

\* set("x", 7) was called after "a" was output: last is still "a"
C17_SetRun ==
    /\ call.op = "set"
    /\ call.args = <<<<"x">>, PyInt(7)>>
    /\ chat = <<<<"a">>>>
    /\ last = PyStr(<<"a">>)
    /\ env_vars[<<"x">>] = PyInt(7)

-----------------------------------------------------------------------------
(* Frees of free cells, and the cells alloc takes. *)

\* the cell the address text addr reaches, or -1 when it reaches none
CellOf(addr) ==
    IF int16(addr).kind = "raise" THEN 0 - 1
    ELSE ListIndex(int16(addr).v, HEAP_SIZE)

\* C18: free on an address whose cell is already free (a double free, or
\* an address never allocated) is not silently tolerated: it fails with an
\* error and leaves every cell and the allocation cursor unchanged
C18_FreeOfFreeCellFails ==
    [][(/\ call'.op = "free"
        /\ CellOf(call'.args[1]) >= 0
        /\ heap[CellOf(call'.args[1])].free)
           => /\ call'.ret.kind = "raise"
              /\ UNCHANGED <<heap, first_free>>]_vars

\* C19: no double allocation: in every state reached by alloc and free
\* calls, frees of arbitrary addresses included, an alloc call that returns
\* an address returns the one of the cell at the cursor, and that cell was
\* free just before the call, is occupied after it and is the only cell
\* the call changes: two live allocations never share a cell
C19_NoDoubleAllocation ==
    [][(call'.op = "alloc" /\ call'.ret.kind = "str")
          => LET c == ListIndex(first_free, HEAP_SIZE)
             IN  /\ c >= 0
                 /\ heap[c].free
                 /\ ~heap'[c].free
                 /\ call'.ret.v = HexTail(first_free)
                 /\ first_free >= 0 => CellOf(call'.ret.v) = c
                 /\ \A k \in DOMAIN heap : k # c => heap'[k] = heap[k]]_vars

\* alloc(1) has returned the address 1 while another allocation is live
C19_SecondAllocation ==
    /\ call.op = "alloc"
    /\ call.args = <<PyInt(1)>>
    /\ call.ret = PyStr(<<"1">>)
    /\ ~heap[1].free
    /\ \E k \in DOMAIN heap : k # 1 /\ ~heap[k].free

\* C20: no leaked cell: a cell goes from free to occupied only in an alloc
\* call that returns that cell's address to the caller; an alloc call that
\* returns no address (the None sentinel, or an error) leaves the occupancy
\* and the payload of every cell unchanged
C20_NoLeakedCell ==
    [][/\ \A k \in DOMAIN heap :
              (heap[k].free /\ ~heap'[k].free)
                  => /\ call'.op = "alloc"
                     /\ call'.ret.kind = "str"
                     /\ ListIndex(first_free, HEAP_SIZE) = k
       /\ (call'.op = "alloc" /\ call'.ret.kind # "str") => heap' = heap]_vars

-----------------------------------------------------------------------------
(* The server: a sandbox for every user, and the handler of the socket     *)
(* event "run_code", which runs the lines of a submitted text in the       *)
(* sandbox of the session's user.                                          *)

\* a Python bool
PyBool(b) == [kind |-> "bool", v |-> b]

Users == {"u1", "u2"}

\* a request whose flask.session holds no "user"
NoSession == "none"

\* self.env_cls(): the environment a user's sandbox starts as
NewEnv == [vars |-> <<>>, last |-> PyStr(<<>>), chat |-> <<>>]

\* "Error: input must be a string"
ErrNotString ==
    <<"E", "r", "r", "o", "r", ":", " ", "i", "n", "p", "u", "t", " ",
      "m", "u", "s", "t", " ", "b", "e", " ", "a", " ", "s", "t", "r",
      "i", "n", "g">>

\* the lines a client sends: a blank line, echo of two different strings, a
\* name never registered, echo with no argument (its handler fails), and
\* echo of a word to_type cannot coerce
LineBlank == <<>>
LineEchoA == CmdEcho \o <<" ">> \o Quoted(<<"a">>)
LineEchoB == CmdEcho \o <<" ">> \o Quoted(<<"b">>)
LineUnknown == CmdNope
LineFailing == CmdEcho
LineUncoercible == CmdEcho \o <<" ">> \o <<"x">>

GoodLines == {LineEchoA, LineEchoB}
BadLines == {LineBlank, LineUnknown, LineFailing, LineUncoercible}
MsgLines == GoodLines \cup BadLines

\* lines joined by "\n"
RECURSIVE JoinLines(_)
JoinLines(ls) ==
    IF ls = <<>> THEN <<>>
    ELSE IF Len(ls) = 1 THEN ls[1]
    ELSE ls[1] \o <<"\n">> \o JoinLines(Tail(ls))

\* the texts a client sends: every text of one line, every text of two
\* lines with an echo of a string among them, and the texts of three lines
\* that put a bad line between echo "a" and echo "b"
MsgLineSeqs ==
    {<<l>> : l \in MsgLines}
        \cup {<<l, m>> : l \in GoodLines, m \in MsgLines}
        \cup {<<l, m>> : l \in MsgLines, m \in GoodLines}
        \cup {<<LineEchoA, l, LineEchoB>> : l \in BadLines}

Texts == {JoinLines(ls) : ls \in MsgLineSeqs}

\* a text is submitted to a sandbox whose transcript is shorter than this
MaxTranscript == 1

\* how the calls of emit in a request end: they return, or they raise
RequestEmits == {"ok", "RuntimeError"}

\* data["text"]: a str, or a value that is no str
MsgData == {PyStr(t) : t \in Texts} \cup {PyInt(7)}

\* the pieces split_by_not_in_blocks_or_strings(text, "\n") gives, computed
\* once for every text
TextLinesTable ==
    [t \in Texts |-> split_by_not_in_blocks_or_strings(t, "\n")] @@ <<>>

\* from_string on every line a client sends, computed once
MsgFromStringTable == [l \in MsgLines |-> from_string(l)] @@ <<>>

\* for i in lines: self.runner_cls.from_string(i, envir).run()
\* An exception from_string raises leaves the loop and the handler
RECURSIVE RunLines(_, _, _, _)
RunLines(cmds, e, lines, emitted) ==
    IF lines = <<>> THEN [env |-> e, ret |-> PyBool(TRUE)]
    ELSE LET runner == MsgFromStringTable[Head(lines)]
         IN  IF runner.kind = "raise" THEN [env |-> e, ret |-> runner]
             ELSE RunLines(cmds, run(cmds, e, runner, FALSE, emitted).env,
                           Tail(lines), emitted)

\* handle_client_message(data) in a request of the given session (no user,
\* or a user that logged in and so has a sandbox), on the
\* sandboxes sbs; emitted is how the calls of emit in this request end.
\* emit("server", ...) and emit("clear", "") are called outside any try
handle_client_message(sbs, cmds, session, data, emitted) ==
    IF session = NoSession
    THEN [sandboxes |-> sbs, ret |-> PyBool(FALSE)]
    ELSE IF data.kind # "str"
    THEN IF emitted # "ok"
         THEN [sandboxes |-> sbs, ret |-> Raise(emitted)]
         ELSE LET o == output(sbs[session], PyStr(ErrNotString), emitted)
              IN  [sandboxes |-> [sbs EXCEPT ![session] = o.env],
                   ret |-> PyBool(FALSE)]
    ELSE IF emitted # "ok"
    THEN [sandboxes |-> sbs, ret |-> Raise(emitted)]
    ELSE LET r == RunLines(cmds, sbs[session], TextLinesTable[data.v],
                           emitted)
         IN  [sandboxes |-> [sbs EXCEPT ![session] = r.env], ret |-> r.ret]

\* a user logs in or opens the home page: the user has a sandbox from then
LoginCall(user) ==
    /\ sandboxes' = IF user \in DOMAIN sandboxes THEN sandboxes
                    ELSE (user :> NewEnv) @@ sandboxes
    /\ call' = [op |-> "login", args |-> <<user>>, ret |-> PyNone]
    /\ UNCHANGED envVars

HandleClientMessage(session, data, emitted) ==
    LET r == handle_client_message(sandboxes, COMMANDS, session, data,
                                   emitted)
    IN  /\ session = NoSession \/ session \in DOMAIN sandboxes
        /\ session # NoSession
               => Len(sandboxes[session].chat) < MaxTranscript
        /\ sandboxes' = r.sandboxes
        /\ call' = [op |-> "handle_client_message",
                    args |-> <<session, data, emitted>>, ret |-> r.ret]
        /\ UNCHANGED envVars

RegisterEcho ==
    /\ RegisterCall("RunnerA", CmdEcho, "echo")
    /\ UNCHANGED sandboxes

SpecWebInit ==
    /\ WebIdle
    /\ RegistryInit /\ EnvInit /\ HeapInit
    /\ TokIdle /\ CoerceIdle
    /\ call = NoCall

SpecWebNext ==
    \/ RegisterEcho /\ UNCHANGED <<tokVars, coerceVars, heapVars>>
    \/ \E user \in Users :
           LoginCall(user) /\ UNCHANGED <<tokVars, coerceVars, heapVars>>
    \/ \E session \in Users \cup {NoSession}, data \in MsgData,
          emitted \in RequestEmits :
           /\ HandleClientMessage(session, data, emitted)
           /\ UNCHANGED <<tokVars, coerceVars, heapVars>>

SpecWeb == SpecWebInit /\ [][SpecWebNext]_vars

\* the environment after every line of lines has been run in order, a line
\* from_string refuses being a line that does nothing
RECURSIVE EveryLineRun(_, _, _)
EveryLineRun(cmds, e, lines) ==
    IF lines = <<>> THEN e
    ELSE LET runner == MsgFromStringTable[Head(lines)]
         IN  EveryLineRun(cmds,
                          IF runner.kind = "raise" THEN e
                          ELSE run(cmds, e, runner, FALSE, "ok").env,
                          Tail(lines))

\* a request of a logged-in session submits a text, and emit works
SubmitsText ==
    /\ call'.op = "handle_client_message"
    /\ call'.args[1] # NoSession
    /\ call'.args[2].kind = "str"
    /\ call'.args[3] = "ok"

\* C21: multi-line dispatch: when an authenticated session submits a text,
\* handle_client_message returns True having run every line once, in order,
\* against that session's own environment and no other; a bad line (blank,
\* unknown command, failing handler, or an argument that cannot be coerced)
\* is a no-op and the lines after it are still run
C21_EveryLineRuns ==
    [][SubmitsText
          => /\ call'.ret.kind = "bool"
             /\ call'.ret.v
             /\ sandboxes' =
                    [sandboxes EXCEPT ![call'.args[1]] =
                        EveryLineRun(COMMANDS, @,
                                     TextLinesTable[call'.args[2].v])]]_vars

====
